---- MODULE Spec2Model ----
(***************************************************************************)
(* Order & Rental Service (src/main.py): the order status state machine,   *)
(* the audit log and the asynchronous confirmation workflow, over the      *)
(* three Cloud SQL tables orders, order_logs and jobs, plus the in-process *)
(* dictionary jobs_memory.                                                 *)
(*                                                                         *)
(* Every handler opens its own connection (get_connection), so handlers    *)
(* of concurrent requests and background tasks interleave at every call    *)
(* of the store (connect, execute, commit, close).  A connection runs with *)
(* autocommit off: what it wrote becomes visible to the other connections  *)
(* at its conn.commit(), all at once.  A step of the model is one of:      *)
(*   - a read of the clock or a SELECT (which takes no lock), with the     *)
(*     branches the handler takes on what it read;                         *)
(*   - a transaction's writes together with the commit that publishes      *)
(*     them (the keys cursor.lastrowid / log_id are those of that commit); *)
(*   - one of the things a handler does after a store call: a write of     *)
(*     jobs_memory, the registration of the task (add_task), the closes    *)
(*     with the answer.                                                    *)
(* The row lock an UPDATE holds until the commit only delays another       *)
(* writer of the same row; it never fails it.                              *)
(*                                                                         *)
(* A store operation may fail (ok = FALSE): it raises and has no effect,   *)
(* and the connection's uncommitted writes are lost; what was committed    *)
(* before stays.  In a request handler the exception becomes the answer    *)
(* 500; in the background task it is caught by the catch-all.             *)
(*                                                                         *)
(* A handler answers in a step of its own, after the step of its last      *)
(* store call: between a SELECT and the answer drawn from it the handler   *)
(* closes its cursor and connection, and other handlers commit and answer. *)
(***************************************************************************)
EXTENDS Integers, Sequences, FiniteSets, TLC

\* ------------------------------------------------------------------ bounds
\* The number of requests the service handles.
MaxRequests == 3

\* ------------------------------------------------------------ enumerations
PENDING == "pending"
ACTIVE == "active"
RETURNED == "returned"
CANCELLED == "cancelled"
OrderStatus == {PENDING, ACTIVE, RETURNED, CANCELLED}

JOB_PENDING == "pending"
JOB_RUNNING == "running"
JOB_SUCCEEDED == "succeeded"
JOB_FAILED == "failed"
JobStatus == {JOB_PENDING, JOB_RUNNING, JOB_SUCCEEDED, JOB_FAILED}

\* Request payloads of POST /orders (OrderCreate); the dates are yyyymmdd.
UserIds == {12}
ItemIds == {505}
StartDates == {20250501}
EndDates == {20250507}

\* Query parameters of GET /orders: a user and an item that have orders and
\* ones that have none; a reading of the clock that some orders precede.
FilterUserIds == UserIds \cup {13}
FilterItemIds == ItemIds \cup {506}
FilterTimes == {1}

\* jobs.result: NULL, a failure reason, or the reference f"/orders/{order_id}".
NoResult == [text |-> "None", order_id |-> 0]
Reason(r) == [text |-> r, order_id |-> 0]
OrderRef(order_id) == [text |-> "/orders/", order_id |-> order_id]

VARIABLES
    orders,        \* table orders: id -> row
    order_logs,    \* table order_logs, in insertion (log_id) order
    jobs,          \* table jobs: job_id -> row
    jobs_memory,   \* the in-process dict jobs_memory
    task,          \* the background task of each job: its position and locals
    thread,        \* requests inside a handler: their position and locals
    clock,         \* what datetime.now(UTC) last returned
    requests,      \* history: requests taken up so far
    status_writes, \* history: committed UPDATE orders SET status, per order
    response       \* the handler and the status code of the last answer sent

vars == <<orders, order_logs, jobs, jobs_memory, task, thread, clock, requests,
          status_writes, response>>

\* Ids a request may name: those the store has assigned, and one it has not.
OrderIds == 1..(Cardinality(DOMAIN orders) + 1)
JobIds == 1..(Cardinality(DOMAIN jobs) + 1)

\* The ids the store can assign within MaxRequests requests, and one more.
Ids == 1..(MaxRequests + 1)

\* --------------------------------------------------------- SQL statements
\* Mutant of InsertOrder: the id is not a fresh key of the table; the row
\* takes the key of the row inserted last and replaces it.
InsertOrder_reuses_id(tbl, id, user_id, item_id, now, start_date, end_date) ==
    LET last == IF id > 1 THEN id - 1 ELSE id IN
    [x \in DOMAIN tbl \cup {last} |->
        IF x = last
        THEN [id |-> last, user_id |-> user_id, item_id |-> item_id,
              status |-> PENDING, total_rent |-> 49999, deposit |-> 100000,
              created_at |-> now, updated_at |-> now,
              start_date |-> start_date, end_date |-> end_date]
        ELSE tbl[x]]

\* INSERT INTO orders (...) with the AUTO_INCREMENT id; the amounts in cents.
InsertOrder(tbl, id, user_id, item_id, now, start_date, end_date) ==
    tbl @@ (id :> [id |-> id, user_id |-> user_id, item_id |-> item_id,
                   status |-> PENDING, total_rent |-> 49999, deposit |-> 100000,
                   created_at |-> now, updated_at |-> now,
                   start_date |-> start_date, end_date |-> end_date])

\* Mutant of UpdateOrder: the UPDATE has no WHERE clause and sets every row.
UpdateOrder_every_row(tbl, id, status, now) ==
    [x \in DOMAIN tbl |-> [tbl[x] EXCEPT !.status = status, !.updated_at = now]]

\* UPDATE orders SET status=%s, updated_at=%s WHERE id=%s
UpdateOrder(tbl, id, status, now) ==
    [tbl EXCEPT ![id].status = status, ![id].updated_at = now]

\* Mutant of create_log_db: log_id counts the entries of the entry's own
\* order instead of being the table's key.
create_log_db_per_order(logs, order_id, from_status, to_status, ts, op, job_id) ==
    Append(logs, [log_id |-> Cardinality({k \in 1..Len(logs) :
                                            logs[k].order_id = order_id}) + 1,
                  order_id |-> order_id,
                  from_status |-> from_status, to_status |-> to_status,
                  timestamp |-> ts, op |-> op, job_id |-> job_id])

\* _create_log_db: INSERT INTO order_logs (order_id, from_status, to_status,
\* timestamp); log_id is the table's AUTO_INCREMENT key.  op and job_id are
\* history fields: the handler, and the job of the run, that wrote the entry.
create_log_db(logs, order_id, from_status, to_status, ts, op, job_id) ==
    Append(logs, [log_id |-> Len(logs) + 1, order_id |-> order_id,
                  from_status |-> from_status, to_status |-> to_status,
                  timestamp |-> ts, op |-> op, job_id |-> job_id])

\* UPDATE jobs SET status=%s, result=%s WHERE job_id=%s
UpdateJob(tbl, job_id, status, result) ==
    [tbl EXCEPT ![job_id].status = status, ![job_id].result = result]

\* jobs_memory[job_id]["status"] = ...; jobs_memory[job_id]["result"] = ...
SetMemory(mem, job_id, status, result) ==
    [mem EXCEPT ![job_id].status = status, ![job_id].result = result]

\* datetime.now(UTC): the clock's value, which may have advanced since it was
\* last read.  A handler reads it before its INSERT or UPDATE, so the
\* timestamps of two writers need not follow the order of their commits.
Now == {clock, clock + 1}

\* A function without the key k.
Without(f, k) == [x \in DOMAIN f \ {k} |-> f[x]]

\* The answer of a handler: its status_code, or that of the HTTPException it
\* raises.
Respond(op, code) == [op |-> op, code |-> code]

\* A request whose answer is decided by what its SELECT found: the handler
\* has still to close its cursor and connection and to return or raise.
Answering(op, order_id, code) ==
    [op |-> op, pc |-> "answer", order_id |-> order_id, code |-> code]

\* The SELECT of a request that will be answered from what it found, and
\* writes nothing: the request is taken up and holds its answer.
AnswerOnly(op, order_id, code) ==
    /\ requests < MaxRequests
    /\ requests' = requests + 1
    /\ thread' = thread @@ (requests + 1 :> Answering(op, order_id, code))
    /\ UNCHANGED <<orders, order_logs, jobs, jobs_memory, task, clock,
                   status_writes, response>>

\* cursor.close(), conn.close(), then the return or the raise of the
\* HTTPException: the answer is sent.  A close that raises makes it 500.
Answer(t, ok) ==
    /\ thread[t].pc = "answer"
    /\ thread' = Without(thread, t)
    /\ response' = Respond(thread[t].op, IF ok THEN thread[t].code ELSE 500)
    /\ UNCHANGED <<orders, order_logs, jobs, jobs_memory, task, clock,
                   requests, status_writes>>

\* ------------------------------------------------------------------- Init
Init ==
    /\ orders = <<>>
    /\ order_logs = <<>>
    /\ jobs = <<>>
    /\ jobs_memory = <<>>
    /\ task = <<>>
    /\ thread = <<>>
    /\ clock = 0
    /\ requests = 0
    /\ status_writes = <<>>
    /\ response = Respond("none", 0)

\* ----------------------------------------------------------- POST /orders
\* A request inside create_order: what the handler holds in its locals.
CreateRequest(pc, order_id, user_id, item_id, start_date, end_date, now) ==
    [op |-> "create_order", pc |-> pc, order_id |-> order_id,
     user_id |-> user_id, item_id |-> item_id,
     start_date |-> start_date, end_date |-> end_date, now |-> now]

\* Line 264: the handler reads the clock before it connects to the store.
create_order(user_id, item_id, start_date, end_date) ==
    /\ requests < MaxRequests
    /\ requests' = requests + 1
    /\ \E now \in Now :
         /\ clock' = now
         /\ thread' = thread @@ (requests + 1 :>
                CreateRequest("insert", 0, user_id, item_id, start_date,
                              end_date, now))
    /\ UNCHANGED <<orders, order_logs, jobs, jobs_memory, task, status_writes,
                   response>>

\* Mutant of create_order_insert: the initial log entry is not written, and
\* the INSERT is committed on its own.
create_order_insert_without_initial_log(t, ok) ==
    /\ t \in DOMAIN thread
    /\ thread[t].op = "create_order" /\ thread[t].pc = "insert"
    /\ IF ok
       THEN LET order_id == Cardinality(DOMAIN orders) + 1 IN
            /\ orders' = InsertOrder(orders, order_id, thread[t].user_id,
                             thread[t].item_id, thread[t].now,
                             thread[t].start_date, thread[t].end_date)
            /\ status_writes' = status_writes @@ (order_id :> 0)
            /\ thread' = [thread EXCEPT ![t].pc = "return",
                                        ![t].order_id = order_id]
            /\ UNCHANGED <<order_logs, response>>
       ELSE /\ thread' = Without(thread, t)
            /\ response' = Respond("create_order", 500)
            /\ UNCHANGED <<orders, order_logs, status_writes>>
    /\ UNCHANGED <<jobs, jobs_memory, task, clock, requests>>

\* Lines 265-290: connect, INSERT the order (cursor.lastrowid is its id),
\* INSERT the initial log entry, and the commit of both (line 150).  When an
\* operation up to that commit raises, nothing is stored and FastAPI answers
\* 500.
create_order_insert(t, ok) ==
    /\ t \in DOMAIN thread
    /\ thread[t].op = "create_order" /\ thread[t].pc = "insert"
    /\ IF ok
       THEN LET order_id == Cardinality(DOMAIN orders) + 1 IN
            /\ orders' = InsertOrder(orders, order_id, thread[t].user_id,
                             thread[t].item_id, thread[t].now,
                             thread[t].start_date, thread[t].end_date)
            /\ order_logs' = create_log_db(order_logs, order_id, PENDING,
                                 PENDING, thread[t].now, "create_order", 0)
            /\ status_writes' = status_writes @@ (order_id :> 0)
            /\ thread' = [thread EXCEPT ![t].pc = "return",
                                        ![t].order_id = order_id]
            /\ UNCHANGED response
       ELSE /\ thread' = Without(thread, t)
            /\ response' = Respond("create_order", 500)
            /\ UNCHANGED <<orders, order_logs, status_writes>>
    /\ UNCHANGED <<jobs, jobs_memory, task, clock, requests>>

\* Lines 292-310: the order is read back and returned with 201.  When the
\* SELECT raises, or finds no row, the answer is 500 although the order and
\* its log entry are committed.
create_order_return(t, ok) ==
    /\ t \in DOMAIN thread
    /\ thread[t].op = "create_order" /\ thread[t].pc = "return"
    /\ thread' = Without(thread, t)
    /\ response' = Respond("create_order",
                           IF ok /\ thread[t].order_id \in DOMAIN orders
                           THEN 201 ELSE 500)
    /\ UNCHANGED <<orders, order_logs, jobs, jobs_memory, task, clock,
                   requests, status_writes>>

\* ------------------------------------------------ DELETE /orders/{orderId}
\* A request inside cancel_order or update_order_status: its locals.
StatusRequest(op, pc, order_id, current_status, new_status, now) ==
    [op |-> op, pc |-> pc, order_id |-> order_id,
     current_status |-> current_status, new_status |-> new_status,
     now |-> now]

\* Mutant of cancel_order_check: the handler does not compare the status it
\* read with pending.
cancel_order_check_no_400(orderId) ==
    IF orderId \notin DOMAIN orders THEN 404 ELSE 200

\* What cancel_order answers on what its SELECT finds (lines 405-416).
cancel_order_check(orderId) ==
    IF orderId \notin DOMAIN orders THEN 404
    ELSE IF orders[orderId].status # PENDING THEN 400
    ELSE 200

\* Lines 394-413: connect and SELECT the order; a missing row will be
\* answered 404, a status other than pending 400, a raise 500.
cancel_order_select(orderId, ok) ==
    /\ orderId \in OrderIds
    /\ IF ~ok \/ cancel_order_check(orderId) # 200
       THEN AnswerOnly("cancel_order", orderId,
                       IF ok THEN cancel_order_check(orderId) ELSE 500)
       ELSE
         /\ requests < MaxRequests
         /\ requests' = requests + 1
         /\ thread' = thread @@ (requests + 1 :>
                StatusRequest("cancel_order", "now", orderId,
                              orders[orderId].status, CANCELLED, 0))
         /\ UNCHANGED <<orders, order_logs, jobs, jobs_memory, task, clock,
                        status_writes, response>>

\* Lines 407-409 and 413-416: the closes and the raise of the 404 or 400.
cancel_order_answer(t, ok) ==
    /\ t \in DOMAIN thread
    /\ thread[t].op = "cancel_order"
    /\ Answer(t, ok)

\* Line 418: the handler reads the clock, after the row it fetched passed
\* the checks and before its UPDATE; other handlers may have committed
\* since its SELECT.
cancel_order_now(t) ==
    /\ t \in DOMAIN thread
    /\ thread[t].op = "cancel_order" /\ thread[t].pc = "now"
    /\ \E now \in Now :
         /\ clock' = now
         /\ thread' = [thread EXCEPT ![t].pc = "write", ![t].now = now]
    /\ UNCHANGED <<orders, order_logs, jobs, jobs_memory, task, requests,
                   status_writes, response>>

\* Mutant of cancel_order_write: the UPDATE is committed on its own, and the
\* log entry in a second commit.
cancel_order_write_two_commits(t, ok) ==
    /\ t \in DOMAIN thread
    /\ thread[t].op = "cancel_order"
    /\ \/ /\ thread[t].pc = "write"
          /\ thread' = [thread EXCEPT ![t].pc = "log"]
          /\ orders' = UpdateOrder(orders, thread[t].order_id, CANCELLED,
                                   thread[t].now)
          /\ status_writes' = [status_writes EXCEPT ![thread[t].order_id] = @ + 1]
          /\ UNCHANGED order_logs
       \/ /\ thread[t].pc = "log"
          /\ thread' = [thread EXCEPT ![t].pc = "return"]
          /\ order_logs' = create_log_db(order_logs, thread[t].order_id,
                               thread[t].current_status, CANCELLED,
                               thread[t].now, "cancel_order", 0)
          /\ UNCHANGED <<orders, status_writes>>
    /\ UNCHANGED <<jobs, jobs_memory, task, clock, requests, response>>

\* Mutant of cancel_order_write: the UPDATE is committed and no log entry is
\* inserted.
cancel_order_write_without_log(t, ok) ==
    /\ t \in DOMAIN thread
    /\ thread[t].op = "cancel_order" /\ thread[t].pc = "write"
    /\ IF ok
       THEN /\ orders' = UpdateOrder(orders, thread[t].order_id, CANCELLED,
                                     thread[t].now)
            /\ status_writes' = [status_writes EXCEPT ![thread[t].order_id] = @ + 1]
            /\ thread' = [thread EXCEPT ![t].pc = "return"]
            /\ UNCHANGED <<order_logs, response>>
       ELSE /\ thread' = Without(thread, t)
            /\ response' = Respond("cancel_order", 500)
            /\ UNCHANGED <<orders, order_logs, status_writes>>
    /\ UNCHANGED <<jobs, jobs_memory, task, clock, requests>>

\* Lines 419-427: UPDATE orders and _create_log_db, whose commit (line 150)
\* publishes both.  When an operation up to that commit raises, nothing is
\* stored and FastAPI answers 500.
cancel_order_write(t, ok) ==
    /\ t \in DOMAIN thread
    /\ thread[t].op = "cancel_order" /\ thread[t].pc = "write"
    /\ IF ok
       THEN /\ orders' = UpdateOrder(orders, thread[t].order_id, CANCELLED,
                                     thread[t].now)
            /\ order_logs' = create_log_db(order_logs, thread[t].order_id,
                                 thread[t].current_status, CANCELLED,
                                 thread[t].now, "cancel_order", 0)
            /\ status_writes' = [status_writes EXCEPT ![thread[t].order_id] = @ + 1]
            /\ thread' = [thread EXCEPT ![t].pc = "return"]
            /\ UNCHANGED response
       ELSE /\ thread' = Without(thread, t)
            /\ response' = Respond("cancel_order", 500)
            /\ UNCHANGED <<orders, order_logs, status_writes>>
    /\ UNCHANGED <<jobs, jobs_memory, task, clock, requests>>

\* Lines 428-432: the handler's own conn.commit() and the closes, then the
\* answer 200.  When one of them raises, the answer is 500 although the
\* cancellation and its log entry are committed.
cancel_order_return(t, ok) ==
    /\ t \in DOMAIN thread
    /\ thread[t].op = "cancel_order" /\ thread[t].pc = "return"
    /\ thread' = Without(thread, t)
    /\ response' = Respond("cancel_order", IF ok THEN 200 ELSE 500)
    /\ UNCHANGED <<orders, order_logs, jobs, jobs_memory, task, clock,
                   requests, status_writes>>

\* ------------------------------------------ PATCH /orders/{orderId}/status
\* What update_order_status answers on what its SELECT finds (lines 453-466).
update_order_status_check(orderId) ==
    IF orderId \notin DOMAIN orders THEN 404
    ELSE IF orders[orderId].status \in {CANCELLED, RETURNED} THEN 400
    ELSE 200

\* Mutant of update_order_status_select: an update to the status the order
\* already has is logged although nothing is written.
update_order_status_select_logs_noop(orderId, new_status, ok) ==
    /\ orderId \in OrderIds
    /\ IF ~ok \/ update_order_status_check(orderId) # 200
       THEN AnswerOnly("update_order_status", orderId,
                       IF ok THEN update_order_status_check(orderId)
                       ELSE 500)
       ELSE
         /\ requests < MaxRequests
         /\ requests' = requests + 1
         /\ thread' = thread @@ (requests + 1 :>
                StatusRequest("update_order_status",
                              IF orders[orderId].status = new_status
                              THEN "return" ELSE "now",
                              orderId, orders[orderId].status, new_status, 0))
         /\ order_logs' = IF orders[orderId].status = new_status
                          THEN create_log_db(order_logs, orderId, new_status,
                                   new_status, clock, "update_order_status", 0)
                          ELSE order_logs
         /\ UNCHANGED <<orders, jobs, jobs_memory, task, clock,
                        status_writes, response>>

\* Mutant of update_order_status_select: the handler does not compare the
\* new status with the one it read, and goes on to its UPDATE.
update_order_status_select_writes_noop(orderId, new_status, ok) ==
    /\ orderId \in OrderIds
    /\ IF ~ok \/ update_order_status_check(orderId) # 200
       THEN AnswerOnly("update_order_status", orderId,
                       IF ok THEN update_order_status_check(orderId)
                       ELSE 500)
       ELSE
         /\ requests < MaxRequests
         /\ requests' = requests + 1
         /\ thread' = thread @@ (requests + 1 :>
                StatusRequest("update_order_status", "now", orderId,
                              orders[orderId].status, new_status, 0))
         /\ UNCHANGED <<orders, order_logs, jobs, jobs_memory, task, clock,
                        status_writes, response>>

\* Lines 442-468: connect and SELECT the order; a missing row will be
\* answered 404, a terminal status 400, a raise 500; otherwise the
\* comparison of the two statuses: when they differ the handler goes on to read the
\* clock for its UPDATE, when they are equal it goes straight to the
\* read-back of line 482, having written nothing.
update_order_status_select(orderId, new_status, ok) ==
    /\ orderId \in OrderIds
    /\ IF ~ok \/ update_order_status_check(orderId) # 200
       THEN AnswerOnly("update_order_status", orderId,
                       IF ok THEN update_order_status_check(orderId)
                       ELSE 500)
       ELSE
         /\ requests < MaxRequests
         /\ requests' = requests + 1
         /\ thread' = thread @@ (requests + 1 :>
                StatusRequest("update_order_status",
                              IF orders[orderId].status = new_status
                              THEN "return" ELSE "now",
                              orderId, orders[orderId].status, new_status, 0))
         /\ UNCHANGED <<orders, order_logs, jobs, jobs_memory, task, clock,
                        status_writes, response>>

\* Lines 455-457 and 463-466: the closes and the raise of the 404 or 400.
update_order_status_answer(t, ok) ==
    /\ t \in DOMAIN thread
    /\ thread[t].op = "update_order_status"
    /\ Answer(t, ok)

\* Line 469: the handler reads the clock, after the row it fetched passed
\* the checks and before its UPDATE; other handlers may have committed
\* since its SELECT.
update_order_status_now(t) ==
    /\ t \in DOMAIN thread
    /\ thread[t].op = "update_order_status" /\ thread[t].pc = "now"
    /\ \E now \in Now :
         /\ clock' = now
         /\ thread' = [thread EXCEPT ![t].pc = "write", ![t].now = now]
    /\ UNCHANGED <<orders, order_logs, jobs, jobs_memory, task, requests,
                   status_writes, response>>

\* Mutant of update_order_status_write: the entry records as its from_status
\* the status the UPDATE has just written.
update_order_status_write_logs_new_as_old(t, ok) ==
    /\ t \in DOMAIN thread
    /\ thread[t].op = "update_order_status" /\ thread[t].pc = "write"
    /\ IF ok
       THEN /\ orders' = UpdateOrder(orders, thread[t].order_id,
                                     thread[t].new_status, thread[t].now)
            /\ order_logs' = create_log_db(order_logs, thread[t].order_id,
                                 thread[t].new_status, thread[t].new_status,
                                 thread[t].now, "update_order_status", 0)
            /\ status_writes' = [status_writes EXCEPT ![thread[t].order_id] = @ + 1]
            /\ thread' = [thread EXCEPT ![t].pc = "return"]
            /\ UNCHANGED response
       ELSE /\ thread' = Without(thread, t)
            /\ response' = Respond("update_order_status", 500)
            /\ UNCHANGED <<orders, order_logs, status_writes>>
    /\ UNCHANGED <<jobs, jobs_memory, task, clock, requests>>

\* Lines 470-478: UPDATE orders and _create_log_db, whose commit (line 150)
\* publishes both.  When an operation up to that commit raises, nothing is
\* stored and FastAPI answers 500.
update_order_status_write(t, ok) ==
    /\ t \in DOMAIN thread
    /\ thread[t].op = "update_order_status" /\ thread[t].pc = "write"
    /\ IF ok
       THEN /\ orders' = UpdateOrder(orders, thread[t].order_id,
                                     thread[t].new_status, thread[t].now)
            /\ order_logs' = create_log_db(order_logs, thread[t].order_id,
                                 thread[t].current_status, thread[t].new_status,
                                 thread[t].now, "update_order_status", 0)
            /\ status_writes' = [status_writes EXCEPT ![thread[t].order_id] = @ + 1]
            /\ thread' = [thread EXCEPT ![t].pc = "return"]
            /\ UNCHANGED response
       ELSE /\ thread' = Without(thread, t)
            /\ response' = Respond("update_order_status", 500)
            /\ UNCHANGED <<orders, order_logs, status_writes>>
    /\ UNCHANGED <<jobs, jobs_memory, task, clock, requests>>

\* Lines 479-495: after a write the handler's own conn.commit(); then, after
\* a write or none, the order is read back and returned with 200.  When the
\* commit or the SELECT raises, the answer is 500; the new status and its
\* log entry, if the handler wrote them, are committed.
update_order_status_return(t, ok) ==
    /\ t \in DOMAIN thread
    /\ thread[t].op = "update_order_status" /\ thread[t].pc = "return"
    /\ thread' = Without(thread, t)
    /\ response' = Respond("update_order_status", IF ok THEN 200 ELSE 500)
    /\ UNCHANGED <<orders, order_logs, jobs, jobs_memory, task, clock,
                   requests, status_writes>>


\* ------------------------------------------------------------- GET /orders
\* An Optional[T] query parameter: {} is None, {x} is the value x.
Optional(S) == {{}} \cup {{x} : x \in S}
Value(p) == CHOOSE x \in p : TRUE

\* The values of the query parameters state, userId, itemId, from and to.
StatusFilters == Optional(OrderStatus)
UserIdFilters == Optional(FilterUserIds)
ItemIdFilters == Optional(FilterItemIds)
TimeFilters == Optional(FilterTimes)

\* One " AND column <comparison> %s" appended to the query, with its param.
Condition(column, comparison, param) ==
    [column |-> column, comparison |-> comparison, param |-> param]

\* Whether a row satisfies one condition of the WHERE clause.
Satisfies(row, c) ==
    IF c.comparison = "=" THEN row[c.column] = c.param
    ELSE IF c.comparison = ">=" THEN row[c.column] >= c.param
    ELSE row[c.column] <= c.param

\* cursor.execute(query, params); cursor.fetchall(): the rows of orders that
\* satisfy every condition of the WHERE clause.
Fetch(query) ==
    {orders[o] : o \in {x \in DOMAIN orders :
                           \A k \in 1..Len(query) :
                              Satisfies(orders[x], query[k])}}

\* Mutant of ListOrders: the upper bound on created_at is appended as a
\* strict comparison.
ListOrders_to_exclusive(status, user_id, item_id, from_, to_) ==
    LET query ==
            (IF status # {}
             THEN <<Condition("status", "=", Value(status))>> ELSE <<>>)
         \o (IF user_id # {}
             THEN <<Condition("user_id", "=", Value(user_id))>> ELSE <<>>)
         \o (IF item_id # {}
             THEN <<Condition("item_id", "=", Value(item_id))>> ELSE <<>>)
         \o (IF from_ # {}
             THEN <<Condition("created_at", ">=", Value(from_))>> ELSE <<>>)
         \o (IF to_ # {}
             THEN <<Condition("created_at", "<=", Value(to_) - 1)>> ELSE <<>>)
    IN Fetch(query)

\* Lines 328-359: the query that list_orders builds from the parameters that
\* are not None, and the rows it fetches (no ORDER BY: a set of rows).
ListOrders(status, user_id, item_id, from_, to_) ==
    LET query ==
            (IF status # {}
             THEN <<Condition("status", "=", Value(status))>> ELSE <<>>)
         \o (IF user_id # {}
             THEN <<Condition("user_id", "=", Value(user_id))>> ELSE <<>>)
         \o (IF item_id # {}
             THEN <<Condition("item_id", "=", Value(item_id))>> ELSE <<>>)
         \o (IF from_ # {}
             THEN <<Condition("created_at", ">=", Value(from_))>> ELSE <<>>)
         \o (IF to_ # {}
             THEN <<Condition("created_at", "<=", Value(to_))>> ELSE <<>>)
    IN Fetch(query)

\* Lines 314-355: list_orders connects and runs its SELECT; it writes
\* nothing.
list_orders(status, user_id, item_id, from_, to_, ok) ==
    /\ status \in StatusFilters
    /\ user_id \in UserIdFilters
    /\ item_id \in ItemIdFilters
    /\ from_ \in TimeFilters /\ to_ \in TimeFilters
    /\ AnswerOnly("list_orders", 0, IF ok THEN 200 ELSE 500)

\* Lines 356-359: the closes, and the rows are returned with 200.
list_orders_answer(t, ok) ==
    /\ t \in DOMAIN thread
    /\ thread[t].op = "list_orders"
    /\ Answer(t, ok)

\* --------------------------------------------- GET /orders/{orderId}[/logs]
\* What get_order_by_id reads (lines 367-385): the committed row.
GetOrder(orderId) == orders[orderId]

\* What get_order_by_id answers (lines 378-385).
get_order_by_id_check(orderId) ==
    IF orderId \notin DOMAIN orders THEN 404 ELSE 200

RECURSIVE SortLogs(_)
SortLogs(logs) ==
    IF logs = {} THEN <<>>
    ELSE LET first == CHOOSE l \in logs : \A m \in logs :
                         \/ l.timestamp < m.timestamp
                         \/ l.timestamp = m.timestamp /\ l.log_id <= m.log_id
         IN <<first>> \o SortLogs(logs \ {first})

\* Mutant of GetOrderLogs: the SELECT has no ORDER BY, and the rows come in
\* the order of the table's key.
GetOrderLogs_without_order_by(orderId) ==
    LET ks == {n \in 1..Len(order_logs) : order_logs[n].order_id = orderId}
        nth[i \in 1..Cardinality(ks)] ==
            CHOOSE k \in ks : Cardinality({m \in ks : m < k}) = i - 1
    IN [i \in 1..Cardinality(ks) |-> order_logs[nth[i]]]

\* What get_order_logs reads (lines 503-518): WHERE order_id = %s
\* ORDER BY timestamp ASC, log_id ASC.
GetOrderLogs(orderId) ==
    SortLogs({order_logs[k] : k \in {n \in 1..Len(order_logs) :
                                       order_logs[n].order_id = orderId}})

\* Lines 367-378: get_order_by_id connects and runs its SELECT.
get_order_by_id(orderId, ok) ==
    /\ orderId \in OrderIds
    /\ AnswerOnly("get_order_by_id", orderId,
                  IF ok THEN get_order_by_id_check(orderId) ELSE 500)

\* Lines 379-385: the closes, then the 404 or the row with 200.
get_order_by_id_answer(t, ok) ==
    /\ t \in DOMAIN thread
    /\ thread[t].op = "get_order_by_id"
    /\ Answer(t, ok)

\* What get_order_logs answers (lines 498-518): the rows it fetched, whatever
\* their number; no statement of the handler looks for the order itself.
get_order_logs_check(orderId) == 200

\* Lines 503-514: get_order_logs connects and runs its SELECT.
get_order_logs(orderId, ok) ==
    /\ orderId \in OrderIds
    /\ AnswerOnly("get_order_logs", orderId,
                  IF ok THEN get_order_logs_check(orderId) ELSE 500)

\* Lines 515-518: the closes, and the rows are returned with 200.
get_order_logs_answer(t, ok) ==
    /\ t \in DOMAIN thread
    /\ thread[t].op = "get_order_logs"
    /\ Answer(t, ok)

\* ------------------------------------------ POST /orders/{orderId}/confirm
\* A request inside confirm_order: its locals.
ConfirmRequest(pc, order_id, job_id) ==
    [op |-> "confirm_order", pc |-> pc, order_id |-> order_id,
     job_id |-> job_id]

\* Mutant of confirm_order_check: the handler does not look at whether its
\* SELECT found a row.
confirm_order_check_no_404(orderId) ==
    IF orderId \in DOMAIN orders /\ orders[orderId].status # PENDING THEN 400
    ELSE 202

\* Mutant of confirm_order_check: the handler does not compare the status it
\* read with pending.
confirm_order_check_no_400(orderId) ==
    IF orderId \notin DOMAIN orders THEN 404 ELSE 202

\* What confirm_order answers on what its SELECT finds (lines 546-557, 583).
confirm_order_check(orderId) ==
    IF orderId \notin DOMAIN orders THEN 404
    ELSE IF orders[orderId].status # PENDING THEN 400
    ELSE 202

\* Lines 536-553: connect and SELECT the order's status; a missing row will
\* be answered 404, a status other than pending 400, a raise 500.
confirm_order(orderId, ok) ==
    /\ orderId \in OrderIds
    /\ IF ~ok \/ confirm_order_check(orderId) # 202
       THEN AnswerOnly("confirm_order", orderId,
                       IF ok THEN confirm_order_check(orderId) ELSE 500)
       ELSE
         /\ requests < MaxRequests
         /\ requests' = requests + 1
         /\ thread' = thread @@ (requests + 1 :>
                ConfirmRequest("insert", orderId, 0))
         /\ UNCHANGED <<orders, order_logs, jobs, jobs_memory, task, clock,
                        status_writes, response>>

\* Lines 548-551 and 554-557: the closes and the raise of the 404 or 400.
confirm_order_answer(t, ok) ==
    /\ t \in DOMAIN thread
    /\ thread[t].op = "confirm_order"
    /\ Answer(t, ok)

\* Mutant of confirm_order_insert: the INSERT INTO jobs is not committed; the
\* job will be in jobs_memory only when its run is scheduled.
confirm_order_insert_without_job_row(t, ok) ==
    /\ t \in DOMAIN thread
    /\ thread[t].op = "confirm_order" /\ thread[t].pc = "insert"
    /\ IF ok
       THEN /\ thread' = [thread EXCEPT ![t].pc = "schedule",
                   ![t].job_id = Cardinality(DOMAIN jobs_memory) + 1]
            /\ UNCHANGED <<jobs, response>>
       ELSE /\ thread' = Without(thread, t)
            /\ response' = Respond("confirm_order", 500)
            /\ UNCHANGED jobs
    /\ UNCHANGED <<orders, order_logs, jobs_memory, task, clock, requests,
                   status_writes>>

\* Lines 559-568: INSERT INTO jobs and its commit; job_id stands for the
\* fresh uuid4.  When an operation up to the commit raises, nothing is
\* stored and FastAPI answers 500.
confirm_order_insert(t, ok) ==
    /\ t \in DOMAIN thread
    /\ thread[t].op = "confirm_order" /\ thread[t].pc = "insert"
    /\ IF ok
       THEN LET job_id == Cardinality(DOMAIN jobs) + 1 IN
            /\ jobs' = jobs @@ (job_id :>
                   [job_id |-> job_id, order_id |-> thread[t].order_id,
                    status |-> JOB_PENDING, result |-> NoResult])
            /\ thread' = [thread EXCEPT ![t].pc = "schedule",
                                        ![t].job_id = job_id]
            /\ UNCHANGED response
       ELSE /\ thread' = Without(thread, t)
            /\ response' = Respond("confirm_order", 500)
            /\ UNCHANGED jobs
    /\ UNCHANGED <<orders, order_logs, jobs_memory, task, clock, requests,
                   status_writes>>

\* Lines 569-578: the closes, then the job's mirror is put in jobs_memory.
\* When a close raises, the answer is 500, the job row is committed, and the
\* job has neither a mirror nor a run.
confirm_order_memory(t, ok) ==
    /\ t \in DOMAIN thread
    /\ thread[t].op = "confirm_order" /\ thread[t].pc = "schedule"
    /\ IF ok
       THEN /\ jobs_memory' = jobs_memory @@ (thread[t].job_id :>
                   [jobId |-> thread[t].job_id, orderId |-> thread[t].order_id,
                    status |-> JOB_PENDING, result |-> NoResult])
            /\ thread' = [thread EXCEPT ![t].pc = "add_task"]
            /\ UNCHANGED response
       ELSE /\ thread' = Without(thread, t)
            /\ response' = Respond("confirm_order", 500)
            /\ UNCHANGED jobs_memory
    /\ UNCHANGED <<orders, order_logs, jobs, task, clock, requests,
                   status_writes>>

\* Line 581: background_tasks.add_task registers the run of the job; it
\* will not start before the answer is sent.
confirm_order_add_task(t) ==
    /\ t \in DOMAIN thread
    /\ thread[t].op = "confirm_order" /\ thread[t].pc = "add_task"
    /\ task' = task @@ (thread[t].job_id :>
           [pc |-> "registered", order_id |-> thread[t].order_id,
            current_status |-> PENDING, now |-> 0, result |-> NoResult])
    /\ thread' = [thread EXCEPT ![t].pc = "return"]
    /\ UNCHANGED <<orders, order_logs, jobs, jobs_memory, clock, requests,
                   status_writes, response>>

\* Lines 583-585: the answer 202 with the job id; the framework starts the
\* registered run once the answer is sent.
confirm_order_return(t) ==
    /\ t \in DOMAIN thread
    /\ thread[t].op = "confirm_order" /\ thread[t].pc = "return"
    /\ thread' = Without(thread, t)
    /\ task' = [task EXCEPT ![thread[t].job_id].pc = "scheduled"]
    /\ response' = Respond("confirm_order", 202)
    /\ UNCHANGED <<orders, order_logs, jobs, jobs_memory, clock, requests,
                   status_writes>>

\* ------------------------------------ background task _process_confirm_order
\* Line 164: the job is marked running in jobs_memory, before the try block
\* and before the run connects to the store.
process_confirm_order_start(job_id) ==
    /\ job_id \in DOMAIN task
    /\ task[job_id].pc = "scheduled"
    /\ jobs_memory' = [jobs_memory EXCEPT ![job_id].status = JOB_RUNNING]
    /\ task' = [task EXCEPT ![job_id].pc = "started"]
    /\ UNCHANGED <<orders, order_logs, jobs, thread, clock, requests,
                   status_writes, response>>

\* Mutant of process_confirm_order_load: the run does not compare the status
\* it read with pending, and goes on to its UPDATE.
process_confirm_order_load_ignores_status(job_id, ok) ==
    /\ job_id \in DOMAIN task
    /\ task[job_id].pc = "started"
    /\ IF ~ok
       THEN task' = [task EXCEPT ![job_id].pc = "except"]
       ELSE IF task[job_id].order_id \notin DOMAIN orders
       THEN task' = [task EXCEPT ![job_id].pc = "absent",
                   ![job_id].result = Reason("order_not_found")]
       ELSE task' = [task EXCEPT ![job_id].pc = "now",
                       ![job_id].current_status =
                             orders[task[job_id].order_id].status]
    /\ UNCHANGED <<orders, order_logs, jobs, jobs_memory, thread, clock,
                   requests, status_writes, response>>

\* Mutant of process_confirm_order_load: the SELECT looks the order up under
\* the id that follows the one the run was scheduled for.
process_confirm_order_load_wrong_id(job_id, ok) ==
    /\ job_id \in DOMAIN task
    /\ task[job_id].pc = "started"
    /\ IF ~ok
       THEN task' = [task EXCEPT ![job_id].pc = "except"]
       ELSE IF task[job_id].order_id + 1 \notin DOMAIN orders
       THEN task' = [task EXCEPT ![job_id].pc = "absent",
                   ![job_id].result = Reason("order_not_found")]
       ELSE IF orders[task[job_id].order_id + 1].status # PENDING
       THEN task' = [task EXCEPT ![job_id].pc = "invalid",
               ![job_id].current_status = orders[task[job_id].order_id + 1].status,
               ![job_id].result = Reason("invalid_state")]
       ELSE task' = [task EXCEPT ![job_id].pc = "now"]
    /\ UNCHANGED <<orders, order_logs, jobs, jobs_memory, thread, clock,
                   requests, status_writes, response>>

\* Lines 166-180 and 194-195: connect, SELECT the order, and the branch the
\* run takes on the row it fetched; result is the failure reason of that
\* branch.
process_confirm_order_load(job_id, ok) ==
    /\ job_id \in DOMAIN task
    /\ task[job_id].pc = "started"
    /\ IF ~ok
       THEN task' = [task EXCEPT ![job_id].pc = "except"]
       ELSE IF task[job_id].order_id \notin DOMAIN orders
       THEN task' = [task EXCEPT ![job_id].pc = "absent",
                   ![job_id].result = Reason("order_not_found")]
       ELSE IF orders[task[job_id].order_id].status # PENDING
       THEN task' = [task EXCEPT ![job_id].pc = "invalid",
                   ![job_id].current_status = orders[task[job_id].order_id].status,
                   ![job_id].result = Reason("invalid_state")]
       ELSE task' = [task EXCEPT ![job_id].pc = "now"]
    /\ UNCHANGED <<orders, order_logs, jobs, jobs_memory, thread, clock,
                   requests, status_writes, response>>

\* Line 210: the run reads the clock, after the row it fetched passed the
\* checks and before its UPDATE; handlers may have committed since its
\* SELECT.
process_confirm_order_now(job_id) ==
    /\ job_id \in DOMAIN task
    /\ task[job_id].pc = "now"
    /\ \E now \in Now :
         /\ clock' = now
         /\ task' = [task EXCEPT ![job_id].pc = "confirm", ![job_id].now = now]
    /\ UNCHANGED <<orders, order_logs, jobs, jobs_memory, thread, requests,
                   status_writes, response>>

\* Mutant of process_confirm_order_reject: the failed job is given the
\* reference of its order as result instead of the reason.
process_confirm_order_reject_stores_reference(job_id, ok) ==
    /\ job_id \in DOMAIN task
    /\ task[job_id].pc \in {"absent", "invalid"}
    /\ IF ok
       THEN /\ jobs' = UpdateJob(jobs, job_id, JOB_FAILED,
                                 OrderRef(task[job_id].order_id))
            /\ task' = [task EXCEPT ![job_id].pc = "rejected"]
       ELSE /\ task' = [task EXCEPT ![job_id].pc = "except"]
            /\ UNCHANGED jobs
    /\ UNCHANGED <<orders, order_logs, jobs_memory, thread, clock, requests,
                   status_writes, response>>

\* Lines 182-186 and 197-201: the order is absent or not pending: UPDATE
\* jobs to failed with the reason, and its commit.
process_confirm_order_reject(job_id, ok) ==
    /\ job_id \in DOMAIN task
    /\ task[job_id].pc \in {"absent", "invalid"}
    /\ IF ok
       THEN /\ jobs' = UpdateJob(jobs, job_id, JOB_FAILED, task[job_id].result)
            /\ task' = [task EXCEPT ![job_id].pc = "rejected"]
       ELSE /\ task' = [task EXCEPT ![job_id].pc = "except"]
            /\ UNCHANGED jobs
    /\ UNCHANGED <<orders, order_logs, jobs_memory, thread, clock, requests,
                   status_writes, response>>

\* Lines 187-192 and 202-207: the closes, then jobs_memory is set and the
\* run returns.  A close that raises sends the run to the catch-all, the
\* job row being committed as failed with the reason.
process_confirm_order_reject_memory(job_id, ok) ==
    /\ job_id \in DOMAIN task
    /\ task[job_id].pc = "rejected"
    /\ IF ok
       THEN /\ jobs_memory' = SetMemory(jobs_memory, job_id, JOB_FAILED,
                                        task[job_id].result)
            /\ task' = [task EXCEPT ![job_id].pc = "done"]
       ELSE /\ task' = [task EXCEPT ![job_id].pc = "except"]
            /\ UNCHANGED jobs_memory
    /\ UNCHANGED <<orders, order_logs, jobs, thread, clock, requests,
                   status_writes, response>>

\* Mutant of process_confirm_order_apply: the UPDATE and the log entry are
\* never committed (their connection is closed with the job's commit missing
\* them), and the run goes on to mark the job.
process_confirm_order_apply_uncommitted(job_id, ok) ==
    /\ job_id \in DOMAIN task
    /\ task[job_id].pc = "confirm"
    /\ task' = [task EXCEPT ![job_id].pc = IF ok THEN "applied" ELSE "except"]
    /\ UNCHANGED <<orders, order_logs, status_writes, jobs, jobs_memory, thread,
                   clock, requests, response>>

\* Lines 211-219: UPDATE orders to active and _create_log_db, whose commit
\* (line 150) publishes both.
process_confirm_order_apply(job_id, ok) ==
    /\ job_id \in DOMAIN task
    /\ task[job_id].pc = "confirm"
    /\ IF ok
       THEN /\ orders' = UpdateOrder(orders, task[job_id].order_id, ACTIVE,
                                     task[job_id].now)
            /\ order_logs' = create_log_db(order_logs, task[job_id].order_id,
                                 task[job_id].current_status, ACTIVE,
                                 task[job_id].now, "confirm_order", job_id)
            /\ status_writes' = [status_writes EXCEPT ![task[job_id].order_id] = @ + 1]
            /\ task' = [task EXCEPT ![job_id].pc = "applied"]
       ELSE /\ task' = [task EXCEPT ![job_id].pc = "except"]
            /\ UNCHANGED <<orders, order_logs, status_writes>>
    /\ UNCHANGED <<jobs, jobs_memory, thread, clock, requests, response>>

\* Lines 151 and 222-226: UPDATE jobs to succeeded with the order's
\* reference, and its commit.
process_confirm_order_succeed(job_id, ok) ==
    /\ job_id \in DOMAIN task
    /\ task[job_id].pc = "applied"
    /\ IF ok
       THEN /\ jobs' = UpdateJob(jobs, job_id, JOB_SUCCEEDED,
                                 OrderRef(task[job_id].order_id))
            /\ task' = [task EXCEPT ![job_id].pc = "succeeded"]
       ELSE /\ task' = [task EXCEPT ![job_id].pc = "except"]
            /\ UNCHANGED jobs
    /\ UNCHANGED <<orders, order_logs, jobs_memory, thread, clock, requests,
                   status_writes, response>>

\* Lines 227-231: the closes, then jobs_memory is set and the run ends.  A
\* close that raises sends the run to the catch-all, the job row being
\* committed as succeeded.
process_confirm_order_succeed_memory(job_id, ok) ==
    /\ job_id \in DOMAIN task
    /\ task[job_id].pc = "succeeded"
    /\ IF ok
       THEN /\ jobs_memory' = SetMemory(jobs_memory, job_id, JOB_SUCCEEDED,
                                        OrderRef(task[job_id].order_id))
            /\ task' = [task EXCEPT ![job_id].pc = "done"]
       ELSE /\ task' = [task EXCEPT ![job_id].pc = "except"]
            /\ UNCHANGED jobs_memory
    /\ UNCHANGED <<orders, order_logs, jobs, thread, clock, requests,
                   status_writes, response>>

\* Lines 233-246: the catch-all: a new connection records the failure in the
\* jobs table and commits, unless that fails too (except Exception: pass).
process_confirm_order_except(job_id, ok) ==
    /\ job_id \in DOMAIN task
    /\ task[job_id].pc = "except"
    /\ jobs' = IF ok
               THEN UpdateJob(jobs, job_id, JOB_FAILED, Reason("internal_error"))
               ELSE jobs
    /\ task' = [task EXCEPT ![job_id].pc = "except_memory"]
    /\ UNCHANGED <<orders, order_logs, jobs_memory, thread, clock, requests,
                   status_writes, response>>

\* Lines 248-249: jobs_memory is set to failed with internal_error, whatever
\* became of the UPDATE, and the run ends.
process_confirm_order_except_memory(job_id) ==
    /\ job_id \in DOMAIN task
    /\ task[job_id].pc = "except_memory"
    /\ jobs_memory' = SetMemory(jobs_memory, job_id, JOB_FAILED,
                                Reason("internal_error"))
    /\ task' = [task EXCEPT ![job_id].pc = "done"]
    /\ UNCHANGED <<orders, order_logs, jobs, thread, clock, requests,
                   status_writes, response>>


\* --------------------------------------------------------- GET /jobs/{jobId}
\* The Location header f"/jobs/{jobId}", or no such header.
NoLocation == [text |-> "None", job_id |-> 0]
JobRef(jobId) == [text |-> "/jobs/", job_id |-> jobId]

\* Mutant of GetJob: the job is read from jobs_memory instead of the table.
GetJob_from_jobs_memory(jobId) ==
    IF jobId \notin DOMAIN jobs_memory
    THEN [code |-> 404, status |-> "none", result |-> NoResult,
          location |-> NoLocation]
    ELSE [code |-> IF jobs_memory[jobId].status \in {JOB_PENDING, JOB_RUNNING}
                   THEN 202 ELSE 200,
          status |-> jobs_memory[jobId].status,
          result |-> jobs_memory[jobId].result,
          location |-> IF jobs_memory[jobId].status
                             \in {JOB_PENDING, JOB_RUNNING}
                       THEN JobRef(jobId) ELSE NoLocation]

\* Lines 597-626: what get_job answers from the jobs table.
GetJob(jobId) ==
    IF jobId \notin DOMAIN jobs
    THEN [code |-> 404, status |-> "none", result |-> NoResult,
          location |-> NoLocation]
    ELSE [code |-> IF jobs[jobId].status \in {JOB_PENDING, JOB_RUNNING}
                   THEN 202 ELSE 200,
          status |-> jobs[jobId].status, result |-> jobs[jobId].result,
          location |-> IF jobs[jobId].status \in {JOB_PENDING, JOB_RUNNING}
                       THEN JobRef(jobId) ELSE NoLocation]

\* Lines 597-605: get_job connects and runs its SELECT.
get_job(jobId, ok) ==
    /\ jobId \in JobIds
    /\ AnswerOnly("get_job", 0, IF ok THEN GetJob(jobId).code ELSE 500)

\* Lines 606-626: the closes, then the 404, or the job with 202 or 200.
get_job_answer(t, ok) ==
    /\ t \in DOMAIN thread
    /\ thread[t].op = "get_job"
    /\ Answer(t, ok)

\* ------------------------------------------------------- claim vocabulary
Terminal == {JOB_SUCCEEDED, JOB_FAILED}

\* The entries of the log table that the run of job_id wrote.
EntriesOfJob(job_id) ==
    {k \in 1..Len(order_logs) : order_logs[k].job_id = job_id}

\* The pending -> active entries of an order.
ConfirmEntries(order_id) ==
    {k \in 1..Len(order_logs) : /\ order_logs[k].order_id = order_id
                                /\ order_logs[k].from_status = PENDING
                                /\ order_logs[k].to_status = ACTIVE}

\* The entry of an order that was inserted last.
NewestEntry(order_id) ==
    LET ks == {k \in 1..Len(order_logs) : order_logs[k].order_id = order_id}
    IN order_logs[CHOOSE k \in ks : \A m \in ks : m <= k]

\* CancelOrder or UpdateOrderStatus has moved the order out of pending.
MovedOutOfPending(order_id) ==
    /\ orders[order_id].status # PENDING
    /\ NewestEntry(order_id).op \in {"cancel_order", "update_order_status"}

\* Another request is inside a handler of the order and has not yet got its
\* answer, or a confirmation run of the order has not ended.
OthersRunning(order_id, t) ==
    \/ \E t2 \in DOMAIN thread \ {t} : /\ thread[t2].pc # "answer"
                                        /\ thread[t2].order_id = order_id
    \/ \E j \in DOMAIN task : task[j].order_id = order_id /\ task[j].pc # "done"

\* The run of the job went through its catch-all, which always leaves
\* internal_error in jobs_memory.
CaughtFailure(j) == jobs_memory[j].result = Reason("internal_error")

\* The step takes up one request, which holds the answer code for op on
\* order_id and has nothing left to do but to send it.
TakesUpAnswering(op, order_id, code) ==
    thread' = thread @@ (requests' :> Answering(op, order_id, code))

\* A request that holds its answer stays as it is until that answer is sent.
AnsweringIsKept(op) ==
    \A t \in DOMAIN thread :
       (thread[t].op = op /\ thread[t].pc = "answer")
          => (t \in DOMAIN thread' => thread'[t] = thread[t])

\* ------------------------------------------------------------------ claims
\* C1: once an order's stored status is cancelled or returned, no step of
\* CancelOrder, UpdateOrderStatus or a workflow run changes that status.
C1_TerminalStatusIsNeverChanged ==
    [][\A o \in DOMAIN orders :
          orders[o].status \in {CANCELLED, RETURNED}
              => orders'[o].status = orders[o].status]_vars

\* C2: two jobs of the same pending order, both ended and neither hit by a
\* store failure, with no other writer of the order: exactly one is succeeded,
\* the other is failed with invalid_state, and the order's log holds exactly
\* one pending -> active entry.
C2_ExactlyOneConcurrentConfirmSucceeds ==
    \A j1, j2 \in DOMAIN task :
       ( /\ j1 # j2
         /\ jobs[j1].order_id = jobs[j2].order_id
         /\ task[j1].pc = "done" /\ task[j2].pc = "done"
         /\ jobs[j1].status \in Terminal /\ jobs[j2].status \in Terminal
         /\ ~CaughtFailure(j1) /\ ~CaughtFailure(j2)
         /\ status_writes[jobs[j1].order_id]
               = Cardinality(EntriesOfJob(j1) \cup EntriesOfJob(j2)) )
       => /\ \E a, b \in {j1, j2} :
                /\ jobs[a].status = JOB_SUCCEEDED
                /\ jobs[b].status = JOB_FAILED
                /\ jobs[b].result = Reason("invalid_state")
          /\ Cardinality(ConfirmEntries(jobs[j1].order_id)) = 1

\* C3: the log of every order holds one entry for its creation and one for
\* each status write committed on it (an update to the status the order
\* already has writes nothing and logs nothing).
C3_OneLogEntryPerStatusWrite ==
    \A o \in DOMAIN orders : Len(GetOrderLogs(o)) = 1 + status_writes[o]

C3_Witness ==
    \E o \in DOMAIN orders :
       /\ status_writes[o] = 2
       /\ Len(GetOrderLogs(o)) = 3
       /\ \E k \in 1..Len(order_logs) : order_logs[k].op = "update_order_status"

\* C4: a job in a terminal status is either succeeded, its run having written
\* exactly one entry, pending -> active, with the order set to active in the
\* same commit; or failed, its run having written nothing to the order or
\* its log.
C4_TerminalJobMatchesOrder ==
    \A j \in DOMAIN jobs :
       jobs[j].status \in Terminal =>
          \/ /\ jobs[j].status = JOB_SUCCEEDED
             /\ Cardinality(EntriesOfJob(j)) = 1
             /\ EntriesOfJob(j) \subseteq ConfirmEntries(jobs[j].order_id)
          \/ /\ jobs[j].status = JOB_FAILED
             /\ EntriesOfJob(j) = {}

\* C5: a run that loaded the order as pending and has not yet written, while
\* CancelOrder or UpdateOrderStatus has since moved the order out of pending,
\* does not apply its write of active.
C5_LostRaceIsNotApplied ==
    [][\A j \in DOMAIN task :
          (task[j].pc = "confirm" /\ MovedOutOfPending(task[j].order_id))
              => task'[j].pc # "applied"]_vars

\* C6: in every state a reader can observe, the status and updated_at of an
\* order are those of the entry last inserted into its log: no status is
\* visible without its entry and no entry without its status.
C6_StatusAndLogAreOneUnit ==
    \A o \in DOMAIN orders :
       /\ GetOrder(o).status = NewestEntry(o).to_status
       /\ GetOrder(o).updated_at = NewestEntry(o).timestamp
       /\ NewestEntry(o) \in {GetOrderLogs(o)[k] : k \in 1..Len(GetOrderLogs(o))}

C6_Witness ==
    \E o \in DOMAIN orders :
       /\ GetOrder(o).status = CANCELLED
       /\ Len(GetOrderLogs(o)) = 2
       /\ \E j \in DOMAIN task : task[j].pc = "confirm"

\* C7: a job whose run has ended is reported by GetJob as succeeded or failed.
\* (A job whose request was answered 500 after the INSERT has no run at all.)
C7_EndedRunLeavesTerminalJob ==
    \A j \in DOMAIN task :
       task[j].pc = "done" => GetJob(j).status \in Terminal

\* C8: what GetJob answers for a job in a terminal status never changes
\* afterwards, and a terminal status always comes with its result.
C8_TerminalJobIsStable ==
    /\ [](\A j \in DOMAIN jobs :
             GetJob(j).status \in Terminal => GetJob(j).result # NoResult)
    /\ [][\A j \in DOMAIN jobs :
             GetJob(j).code = 200 => GetJob(j)' = GetJob(j)]_vars

\* C9: the status of a job row changes only pending -> running,
\* running -> succeeded or running -> failed.
C9_JobStatusPassesThroughRunning ==
    [][\A j \in DOMAIN jobs :
          jobs'[j].status # jobs[j].status =>
             <<jobs[j].status, jobs'[j].status>> \in
                {<<JOB_PENDING, JOB_RUNNING>>, <<JOB_RUNNING, JOB_SUCCEEDED>>,
                 <<JOB_RUNNING, JOB_FAILED>>}]_vars

\* C10: whenever GetJob reports a job as succeeded, the log of the job's
\* order already shows the pending -> active entry that the job's run wrote.
C10_SucceededJobHasItsLogEntry ==
    \A j \in DOMAIN jobs :
       GetJob(j).status = JOB_SUCCEEDED =>
          \E k \in 1..Len(GetOrderLogs(jobs[j].order_id)) :
             LET l == GetOrderLogs(jobs[j].order_id)[k] IN
             /\ l.from_status = PENDING
             /\ l.to_status = ACTIVE
             /\ l.op = "confirm_order"
             /\ l.job_id = j

C10_Witness ==
    \E j \in DOMAIN jobs :
       /\ GetJob(j).status = JOB_SUCCEEDED
       /\ GetJob(j).result = OrderRef(jobs[j].order_id)
       /\ orders[jobs[j].order_id].status # ACTIVE

\* C11: confirm_order on an id that no order has holds the answer 404 from
\* its SELECT on: that step and the step that sends the answer insert no
\* job, prepare no INSERT, register no task and leave the orders and the log
\* as they are, and the answer sent is 404.
C11_ConfirmOfAbsentOrderIsNotFound ==
    [][/\ \A o \in Ids :
             (o \notin DOMAIN orders /\ confirm_order(o, TRUE))
                => /\ TakesUpAnswering("confirm_order", o, 404)
                   /\ UNCHANGED <<orders, order_logs, jobs, jobs_memory, task>>
       /\ \A t \in DOMAIN thread :
             (/\ thread[t].op = "confirm_order" /\ thread[t].pc = "answer"
              /\ thread[t].code = 404
              /\ confirm_order_answer(t, TRUE))
                => /\ response' = Respond("confirm_order", 404)
                   /\ UNCHANGED <<orders, order_logs, jobs, jobs_memory, task>>
       /\ AnsweringIsKept("confirm_order")]_vars

C11_Witness ==
    /\ response = Respond("confirm_order", 404)
    /\ DOMAIN orders # {}
    /\ jobs = <<>> /\ jobs_memory = <<>> /\ task = <<>> /\ thread = <<>>

\* C12: confirm_order whose SELECT finds the order active, returned or
\* cancelled holds the answer 400 from then on: that step and the step that
\* sends the answer insert no job, prepare no INSERT, register no task and
\* leave the orders and the log as they are, and the answer sent is 400.
C12_ConfirmOfNonPendingOrderIsInvalidState ==
    [][/\ \A o \in DOMAIN orders :
             (/\ orders[o].status \in {ACTIVE, RETURNED, CANCELLED}
              /\ confirm_order(o, TRUE))
                => /\ TakesUpAnswering("confirm_order", o, 400)
                   /\ UNCHANGED <<orders, order_logs, jobs, jobs_memory, task>>
       /\ \A t \in DOMAIN thread :
             (/\ thread[t].op = "confirm_order" /\ thread[t].pc = "answer"
              /\ thread[t].code = 400
              /\ confirm_order_answer(t, TRUE))
                => /\ response' = Respond("confirm_order", 400)
                   /\ UNCHANGED <<orders, order_logs, jobs, jobs_memory, task>>
       /\ AnsweringIsKept("confirm_order")]_vars

C12_Witness ==
    /\ response = Respond("confirm_order", 400)
    /\ \E o \in DOMAIN orders : orders[o].status = ACTIVE
    /\ jobs = <<>> /\ jobs_memory = <<>> /\ task = <<>> /\ thread = <<>>

\* C13: cancel_order whose SELECT finds the order not pending, cancelled
\* included, holds the answer 400 from then on: that step and the step that
\* sends the answer leave the order's status and updated_at and the log as
\* they are and prepare no write, and the answer sent is 400.
C13_CancelOfNonPendingOrderIsInvalidState ==
    [][/\ \A o \in DOMAIN orders :
             (orders[o].status # PENDING /\ cancel_order_select(o, TRUE))
                => /\ TakesUpAnswering("cancel_order", o, 400)
                   /\ UNCHANGED <<orders, order_logs>>
       /\ \A t \in DOMAIN thread :
             (/\ thread[t].op = "cancel_order" /\ thread[t].pc = "answer"
              /\ thread[t].code = 400
              /\ cancel_order_answer(t, TRUE))
                => /\ response' = Respond("cancel_order", 400)
                   /\ UNCHANGED <<orders, order_logs>>
       /\ AnsweringIsKept("cancel_order")]_vars

C13_Witness ==
    /\ response = Respond("cancel_order", 400)
    /\ thread = <<>>
    /\ \E o \in DOMAIN orders : /\ orders[o].status = CANCELLED
                                /\ Len(GetOrderLogs(o)) = 2

\* C14: the write of a cancel_order that found the order pending, with no
\* other request or run on that order and no failure of the store, sets the
\* status to cancelled and appends exactly one entry to the log, pending ->
\* cancelled for that order; the handler then answers 200 and changes
\* nothing more.
C14_CancelOfPendingOrderCancelsAndLogsOnce ==
    [][\A t \in DOMAIN thread :
          /\ (cancel_order_write(t, TRUE)
                /\ ~OthersRunning(thread[t].order_id, t))
                => LET o == thread[t].order_id
                       l == order_logs'[Len(order_logs')] IN
                   /\ orders'[o].status = CANCELLED
                   /\ Len(order_logs') = Len(order_logs) + 1
                   /\ SubSeq(order_logs', 1, Len(order_logs)) = order_logs
                   /\ l.order_id = o
                   /\ l.from_status = PENDING
                   /\ l.to_status = CANCELLED
                   /\ t \in DOMAIN thread'
                   /\ thread'[t].pc = "return"
          /\ cancel_order_return(t, TRUE)
                => /\ response' = Respond("cancel_order", 200)
                   /\ UNCHANGED <<orders, order_logs>>]_vars

C14_Witness ==
    /\ response = Respond("cancel_order", 200)
    /\ thread = <<>> /\ task = <<>>
    /\ \E o \in DOMAIN orders :
          /\ orders[o].status = CANCELLED
          /\ Len(GetOrderLogs(o)) = 2
          /\ GetOrderLogs(o)[2].from_status = PENDING
          /\ GetOrderLogs(o)[2].to_status = CANCELLED

\* C15: every pending -> active entry of the log was written by the run of
\* a job of the entry's order; update_order_status writes none.
C15_OnlyTheWorkflowConfirms ==
    \A k \in 1..Len(order_logs) :
       (order_logs[k].from_status = PENDING /\ order_logs[k].to_status = ACTIVE)
           => /\ order_logs[k].op = "confirm_order"
              /\ order_logs[k].job_id \in DOMAIN jobs
              /\ jobs[order_logs[k].job_id].order_id = order_logs[k].order_id

\* C15, amended: update_order_status applies pending -> active like any other
\* transition out of a non-terminal status, and logs it from the status it
\* read to the status it wrote, which differ.  Every pending -> active entry
\* was written either by the run of a job of the entry's order or by
\* update_order_status; none by create_order or cancel_order.
C15_WorkflowOrUpdateConfirms ==
    /\ \A k \in 1..Len(order_logs) :
          (order_logs[k].from_status = PENDING /\ order_logs[k].to_status = ACTIVE)
              => \/ /\ order_logs[k].op = "confirm_order"
                    /\ order_logs[k].job_id \in DOMAIN jobs
                    /\ jobs[order_logs[k].job_id].order_id = order_logs[k].order_id
                 \/ order_logs[k].op = "update_order_status"
    /\ \A k \in 1..Len(order_logs) :
          order_logs[k].op = "update_order_status"
              => order_logs[k].from_status # order_logs[k].to_status

C15_Witness ==
    \E o \in DOMAIN orders :
       /\ orders[o].status = ACTIVE
       /\ \A j \in DOMAIN jobs : jobs[j].order_id # o
       /\ Len(GetOrderLogs(o)) = 2
       /\ GetOrderLogs(o)[2].from_status = PENDING
       /\ GetOrderLogs(o)[2].to_status = ACTIVE
       /\ GetOrderLogs(o)[2].op = "update_order_status"

\* C16: update_order_status on an order that is pending or active, asked
\* for the status the order has, goes from its SELECT straight to the
\* read-back, reading no clock and preparing no write; neither its SELECT
\* step nor its read-back step changes the order's status or updated_at or
\* the log; and when the read-back succeeds the answer is 200.
C16_UpdateToSameStatusIsNoOp ==
    /\ [](\A t \in DOMAIN thread :
             (/\ thread[t].op = "update_order_status"
              /\ thread[t].pc # "answer"
              /\ thread[t].current_status = thread[t].new_status)
                => thread[t].pc = "return")
    /\ [][/\ \A o \in DOMAIN orders :
               ( /\ orders[o].status \notin {CANCELLED, RETURNED}
                 /\ update_order_status_select(o, orders[o].status, TRUE) )
                   => /\ UNCHANGED <<orders, order_logs, clock>>
                      /\ DOMAIN thread' = DOMAIN thread \cup {requests'}
                      /\ thread'[requests'].pc = "return"
          /\ \A t \in DOMAIN thread :
               ( /\ thread[t].op = "update_order_status"
                 /\ thread[t].pc # "answer"
                 /\ thread[t].current_status = thread[t].new_status
                 /\ update_order_status_return(t, TRUE) )
                   => /\ response' = Respond("update_order_status", 200)
                      /\ UNCHANGED <<orders, order_logs>>]_vars

\* An update of an active order to active has been answered 200: no entry
\* of the log was written by update_order_status, and the order's
\* updated_at is still that of the write that made it active.
C16_Witness ==
    /\ response = Respond("update_order_status", 200)
    /\ thread = <<>>
    /\ \A k \in 1..Len(order_logs) : order_logs[k].op # "update_order_status"
    /\ \E o \in DOMAIN orders :
          /\ orders[o].status = ACTIVE
          /\ orders[o].updated_at = NewestEntry(o).timestamp

\* C17: the INSERT step of every create_order whose store operations succeed
\* adds one order, which is pending, has created_at equal to updated_at,
\* and whose log is exactly one entry, pending -> pending, with that
\* timestamp; the handler then answers 201 and changes nothing more.
C17_CreatedOrderIsPendingWithOneEntry ==
    [][\A t \in DOMAIN thread :
          /\ create_order_insert(t, TRUE)
                => \E o \in Ids :
                      /\ o \notin DOMAIN orders
                      /\ DOMAIN orders' = DOMAIN orders \cup {o}
                      /\ orders'[o].status = PENDING
                      /\ orders'[o].created_at = orders'[o].updated_at
                      /\ Len(GetOrderLogs(o)') = 1
                      /\ GetOrderLogs(o)'[1].from_status = PENDING
                      /\ GetOrderLogs(o)'[1].to_status = PENDING
                      /\ GetOrderLogs(o)'[1].timestamp = orders'[o].created_at
          /\ create_order_return(t, TRUE)
                => /\ response' = Respond("create_order", 201)
                   /\ UNCHANGED <<orders, order_logs>>]_vars

C17_Witness ==
    /\ response = Respond("create_order", 201)
    /\ thread = <<>>
    /\ \E o \in DOMAIN orders :
          /\ o > 1
          /\ orders[o].status = PENDING
          /\ orders[o].created_at > 0
          /\ orders[o].created_at = orders[o].updated_at
          /\ Len(GetOrderLogs(o)) = 1
          /\ GetOrderLogs(o)[1].from_status = PENDING
          /\ GetOrderLogs(o)[1].to_status = PENDING

\* C18: every order has the id it is stored under, so no two orders share
\* an id; every INSERT step of a create_order adds one order to the table,
\* also when the requests overlap; and no step removes an order or replaces
\* what create_order stored in it.
C18_CreatedOrdersAreDistinctAndKept ==
    [][/\ \A o \in DOMAIN orders' : orders'[o].id = o
       /\ (\E t \in DOMAIN thread : create_order_insert(t, TRUE))
             => Cardinality(DOMAIN orders') = Cardinality(DOMAIN orders) + 1
       /\ \A o \in DOMAIN orders :
             /\ o \in DOMAIN orders'
             /\ orders'[o].user_id = orders[o].user_id
             /\ orders'[o].item_id = orders[o].item_id
             /\ orders'[o].created_at = orders[o].created_at
             /\ orders'[o].start_date = orders[o].start_date
             /\ orders'[o].end_date = orders[o].end_date]_vars

\* Three requests that overlapped: the one that read the clock last
\* inserted first, and each has its own order.
C18_Witness ==
    /\ Cardinality(DOMAIN orders) = MaxRequests
    /\ \A o \in DOMAIN orders : orders[o].id = o
    /\ \E a, b \in DOMAIN orders :
          a < b /\ orders[a].created_at > orders[b].created_at

\* C19: get_order_logs on an id that no order has is answered 404.
C19_LogsOfAbsentOrderIsNotFound ==
    [][\A t \in DOMAIN thread :
          (/\ thread[t].op = "get_order_logs"
           /\ thread[t].order_id \notin DOMAIN orders
           /\ get_order_logs_answer(t, TRUE))
              => response' = Respond("get_order_logs", 404)]_vars

\* C20: for every store and every combination of the optional parameters,
\* list_orders returns exactly the orders that have the given status, the
\* given user_id, the given item_id, and created_at within from_ and to_,
\* both bounds included; a parameter that is not given excludes nothing.
C20_ListOrdersReturnsExactlyTheMatches ==
    \A status \in StatusFilters, user_id \in UserIdFilters,
       item_id \in ItemIdFilters, from_ \in TimeFilters, to_ \in TimeFilters :
       ListOrders(status, user_id, item_id, from_, to_)
          = {GetOrder(o) : o \in {x \in DOMAIN orders :
                /\ \A s \in status : orders[x].status = s
                /\ \A u \in user_id : orders[x].user_id = u
                /\ \A i \in item_id : orders[x].item_id = i
                /\ \A f \in from_ : f <= orders[x].created_at
                /\ \A t \in to_ : orders[x].created_at <= t}}

\* An order confirmed by a job and an order still pending, created at
\* different times: state=active returns the first and not the second.
C20_Witness ==
    \E a, b \in DOMAIN orders :
       /\ orders[a].status = ACTIVE
       /\ \E j \in DOMAIN jobs : /\ jobs[j].order_id = a
                                  /\ jobs[j].status = JOB_SUCCEEDED
       /\ orders[b].status = PENDING
       /\ orders[a].created_at < orders[b].created_at
       /\ ListOrders({ACTIVE}, {}, {}, {}, {}) = {orders[a]}
       /\ ListOrders({}, {}, {}, {}, {}) = {orders[a], orders[b]}
       /\ ListOrders({}, {}, {}, {orders[b].created_at}, {orders[b].created_at})
             = {orders[b]}

\* C21: what get_order_logs returns for an order is sorted ascending by
\* (timestamp, log_id), also when concurrent writers of the order inserted
\* their entries in another order than they read the clock.
C21_OrderLogsAreSortedByTimestampAndLogId ==
    \A o \in DOMAIN orders :
       \A k \in 1..(Len(GetOrderLogs(o)) - 1) :
          LET a == GetOrderLogs(o)[k]
              b == GetOrderLogs(o)[k + 1] IN
          \/ a.timestamp < b.timestamp
          \/ a.timestamp = b.timestamp /\ a.log_id < b.log_id

\* Two writers of one order: the one that read the clock later committed
\* first, so the entry with the larger log_id carries the smaller timestamp.
C21_Witness ==
    \E o \in DOMAIN orders :
       \E k \in 1..(Len(GetOrderLogs(o)) - 1) :
          /\ GetOrderLogs(o)[k].log_id > GetOrderLogs(o)[k + 1].log_id
          /\ GetOrderLogs(o)[k].timestamp < GetOrderLogs(o)[k + 1].timestamp

\* C22: no two entries of the log table have the same log_id, whether they
\* belong to one order or to different orders, and whichever handlers
\* inserted them.
C22_LogIdsAreUnique ==
    \A k, m \in 1..Len(order_logs) :
       k # m => order_logs[k].log_id # order_logs[m].log_id

\* Entries of two orders, one of them inserted by a writer that had read the
\* clock before the entry in front of it was written.
C22_Witness ==
    \E k, m \in 1..Len(order_logs) :
       /\ k < m
       /\ order_logs[k].order_id # order_logs[m].order_id
       /\ order_logs[k].timestamp > order_logs[m].timestamp
       /\ order_logs[m].op # "create_order"

\* C23: for every job as get_job reads it: the result is absent while the
\* status is pending or running; with succeeded it is the reference of the
\* job's own order; with failed it is one of order_not_found, invalid_state,
\* internal_error.
C23_JobResultMatchesStatus ==
    \A j \in DOMAIN jobs :
       /\ GetJob(j).status \in {JOB_PENDING, JOB_RUNNING}
             => GetJob(j).result = NoResult
       /\ GetJob(j).status = JOB_SUCCEEDED
             => GetJob(j).result = OrderRef(jobs[j].order_id)
       /\ GetJob(j).status = JOB_FAILED
             => GetJob(j).result \in {Reason("order_not_found"),
                                      Reason("invalid_state"),
                                      Reason("internal_error")}

C23_Witness ==
    \E j1, j2 \in DOMAIN jobs :
       /\ GetJob(j1).status = JOB_SUCCEEDED
       /\ GetJob(j1).result = OrderRef(jobs[j1].order_id)
       /\ GetJob(j2).status = JOB_FAILED
       /\ GetJob(j2).result = Reason("invalid_state")

\* C24: get_job answers 404 for an id that no job has; 202 with the Location
\* of the same job exactly when the stored status is pending or running; 200
\* with the stored status and result exactly when the stored status is
\* succeeded or failed; the answer sent is the one drawn from the row the
\* SELECT read; and no get_job step changes a job, an order or the log.
C24_GetJobReportsTheStoredJob ==
    /\ [](\A j \in JobIds :
            IF j \notin DOMAIN jobs
            THEN GetJob(j).code = 404
            ELSE /\ jobs[j].status \in {JOB_PENDING, JOB_RUNNING}
                      <=> (GetJob(j).code = 202 /\ GetJob(j).location = JobRef(j))
                 /\ jobs[j].status \in {JOB_SUCCEEDED, JOB_FAILED}
                      <=> (GetJob(j).code = 200 /\ GetJob(j).location = NoLocation)
                 /\ GetJob(j).status = jobs[j].status
                 /\ GetJob(j).result = jobs[j].result)
    /\ [][/\ \A j \in Ids :
               get_job(j, TRUE)
                  => /\ TakesUpAnswering("get_job", 0, GetJob(j).code)
                     /\ UNCHANGED <<jobs, jobs_memory, task, orders,
                                    order_logs>>
          /\ \A t \in DOMAIN thread :
               (thread[t].op = "get_job" /\ get_job_answer(t, TRUE))
                  => /\ response' = Respond("get_job", thread[t].code)
                     /\ UNCHANGED <<jobs, jobs_memory, task, orders,
                                    order_logs>>
          /\ AnsweringIsKept("get_job")]_vars

C24_Witness ==
    /\ response = Respond("get_job", 200)
    /\ \E j \in DOMAIN jobs : /\ GetJob(j).status = JOB_SUCCEEDED
                             /\ GetJob(j).result = OrderRef(jobs[j].order_id)
                             /\ j \in DOMAIN jobs_memory
                             /\ jobs_memory[j].status = JOB_SUCCEEDED

\* C25: the INSERT step of a confirm_order adds exactly one job, pending
\* with no result, and touches no other job and no run; its add_task step
\* registers exactly one run, for the job the request inserted, which is in
\* the table and has no run yet; the step that answers 202 releases that
\* run, which has not started.  Every run belongs to a job of the table and
\* has its mirror in jobs_memory, no job has more than one run, a run is
\* registered and released once, and it does not start before the answer.
C25_OneJobAndOneRunPerAcceptedConfirm ==
    /\ [](/\ DOMAIN task \subseteq DOMAIN jobs
          /\ DOMAIN task \subseteq DOMAIN jobs_memory
          /\ \A j \in DOMAIN task :
                /\ task[j].order_id = jobs[j].order_id
                /\ task[j].pc = "registered"
                     <=> \E t \in DOMAIN thread :
                            /\ thread[t].op = "confirm_order"
                            /\ thread[t].pc = "return"
                            /\ thread[t].job_id = j)
    /\ [][/\ \A t \in DOMAIN thread :
               /\ confirm_order_insert(t, TRUE)
                     => /\ \E j \in Ids :
                              /\ j \notin DOMAIN jobs
                              /\ DOMAIN jobs' = DOMAIN jobs \cup {j}
                              /\ jobs'[j] = [job_id |-> j,
                                             order_id |-> thread[t].order_id,
                                             status |-> JOB_PENDING,
                                             result |-> NoResult]
                        /\ \A x \in DOMAIN jobs : jobs'[x] = jobs[x]
                        /\ UNCHANGED task
               /\ confirm_order_add_task(t)
                     => /\ thread[t].job_id \in DOMAIN jobs \ DOMAIN task
                        /\ DOMAIN task' = DOMAIN task \cup {thread[t].job_id}
                        /\ task'[thread[t].job_id].pc = "registered"
                        /\ \A x \in DOMAIN task : task'[x] = task[x]
                        /\ UNCHANGED jobs
               /\ confirm_order_return(t)
                     => /\ response' = Respond("confirm_order", 202)
                        /\ task[thread[t].job_id].pc = "registered"
                        /\ task'[thread[t].job_id].pc = "scheduled"
                        /\ \A x \in DOMAIN task \ {thread[t].job_id} :
                              task'[x] = task[x]
                        /\ UNCHANGED jobs
          /\ \A j \in DOMAIN task :
                /\ j \in DOMAIN task'
                /\ task[j].pc # "registered" => task'[j].pc # "registered"
                /\ task[j].pc \notin {"registered", "scheduled"}
                     => task'[j].pc # "scheduled"
                /\ task[j].pc = "registered"
                     => task'[j].pc \in {"registered", "scheduled"}
                /\ task[j].pc = "done" => task'[j] = task[j]]_vars

\* A second confirmation of an order is accepted after the run of the first
\* has ended in a store failure: its job is pending and its run not started.
C25_Witness ==
    /\ response = Respond("confirm_order", 202)
    /\ \E j1, j2 \in DOMAIN task :
          /\ jobs[j1].order_id = jobs[j2].order_id
          /\ task[j1].pc = "done"
          /\ task[j2].pc = "scheduled"
          /\ jobs[j2].status = JOB_PENDING
          /\ jobs[j2].result = NoResult

\* C26: a run that a failed store operation sent into its catch-all (which
\* always leaves internal_error in jobs_memory) and that has ended is
\* reported by get_job as failed with result internal_error.
C26_StoreFailureEndsAsInternalError ==
    \A j \in DOMAIN task :
       (task[j].pc = "done" /\ CaughtFailure(j))
          => /\ GetJob(j).status = JOB_FAILED
             /\ GetJob(j).result = Reason("internal_error")

\* C27: a run whose SELECT found the order no longer pending writes nothing
\* to the order or its log and never succeeds; when it has ended without a
\* store failure, its job is failed with result invalid_state.
C27_RunOnNonPendingOrderFailsInvalidState ==
    \A j \in DOMAIN task :
       task[j].current_status # PENDING
          => /\ EntriesOfJob(j) = {}
             /\ jobs[j].status # JOB_SUCCEEDED
             /\ (task[j].pc = "done" /\ ~CaughtFailure(j))
                   => /\ GetJob(j).status = JOB_FAILED
                      /\ GetJob(j).result = Reason("invalid_state")

\* The second job of an order, whose run loaded the order after the run of
\* the first job had made it active.
C27_Witness ==
    \E j1, j2 \in DOMAIN task :
       /\ jobs[j1].order_id = jobs[j2].order_id
       /\ GetJob(j1).status = JOB_SUCCEEDED
       /\ task[j2].current_status = ACTIVE
       /\ task[j2].pc = "done"
       /\ GetJob(j2).result = Reason("invalid_state")
       /\ Len(GetOrderLogs(jobs[j1].order_id)) = 2

\* C28: the log of every order, as get_order_logs returns it, is a chain: it
\* starts with pending -> pending; every later entry starts from the status
\* the entry before it ended in and ends in another status; and the last
\* entry ends in the order's current status.
C28_OrderLogIsAChain ==
    \A o \in DOMAIN orders :
       LET l == GetOrderLogs(o) IN
       /\ Len(l) >= 1
       /\ l[1].from_status = PENDING /\ l[1].to_status = PENDING
       /\ \A k \in 2..Len(l) : /\ l[k].from_status = l[k - 1].to_status
                              /\ l[k].from_status # l[k].to_status
       /\ l[Len(l)].to_status = orders[o].status

\* C29: no run finds its order absent and no job is failed with result
\* order_not_found: a job is inserted only for an order of the table, and no
\* handler deletes an order.
C29_OrderNotFoundIsUnreachable ==
    /\ \A j \in DOMAIN jobs :
          /\ jobs[j].order_id \in DOMAIN orders
          /\ GetJob(j).result # Reason("order_not_found")
    /\ \A j \in DOMAIN task :
          /\ task[j].pc # "absent"
          /\ jobs_memory[j].result # Reason("order_not_found")

\* Runs that have loaded their order and ended, one of them in a failure for
\* another reason.
C29_Witness ==
    \E j1, j2 \in DOMAIN task :
       /\ task[j1].pc = "done" /\ task[j2].pc = "done"
       /\ GetJob(j1).status = JOB_FAILED
       /\ GetJob(j1).result = Reason("invalid_state")
       /\ GetJob(j2).status = JOB_SUCCEEDED
       /\ orders[jobs[j1].order_id].status = ACTIVE

\* The rows of the log table that belong to an order.
LogRows(order_id) ==
    {order_logs[k] : k \in {n \in 1..Len(order_logs) :
                               order_logs[n].order_id = order_id}}

\* The order that a step writes to: that of the request or of the run that
\* takes the step.
WritesTo(o) ==
    \/ \E t \in DOMAIN thread :
          /\ thread[t].order_id = o
          /\ cancel_order_write(t, TRUE) \/ update_order_status_write(t, TRUE)
    \/ \E j \in DOMAIN task :
          /\ task[j].order_id = o
          /\ process_confirm_order_apply(j, TRUE)

\* C30: no step changes the id, user_id, item_id, start_date, end_date,
\* total_rent, deposit or created_at of an existing order; a step changes
\* the status, the updated_at or the log of an order only when it is a write
\* of a request or run on that very order.
C30_OnlyStatusOfTheTargetedOrderChanges ==
    [][\A o \in DOMAIN orders :
          /\ o \in DOMAIN orders'
          /\ orders'[o].id = orders[o].id
          /\ orders'[o].user_id = orders[o].user_id
          /\ orders'[o].item_id = orders[o].item_id
          /\ orders'[o].start_date = orders[o].start_date
          /\ orders'[o].end_date = orders[o].end_date
          /\ orders'[o].total_rent = orders[o].total_rent
          /\ orders'[o].deposit = orders[o].deposit
          /\ orders'[o].created_at = orders[o].created_at
          /\ (orders'[o] # orders[o] \/ LogRows(o)' # LogRows(o))
                => WritesTo(o)]_vars

\* Two orders, created at different times: a request has cancelled the
\* younger one; the older one and its log are as create_order left them.
C30_Witness ==
    \E a, b \in DOMAIN orders :
       /\ orders[a].created_at < orders[b].created_at
       /\ orders[b].status = CANCELLED
       /\ orders[b].updated_at > orders[b].created_at
       /\ Len(GetOrderLogs(b)) = 2 /\ GetOrderLogs(b)[2].op = "cancel_order"
       /\ orders[a].status = PENDING
       /\ orders[a].updated_at = orders[a].created_at
       /\ Len(GetOrderLogs(a)) = 1
       /\ orders[a].total_rent = 49999 /\ orders[a].deposit = 100000

\* ------------------------------------------------------------------- Next
Next ==
    \/ \E u \in UserIds, i \in ItemIds, s \in StartDates, e \in EndDates :
          create_order(u, i, s, e)
    \/ \E t \in Ids, ok \in BOOLEAN : create_order_insert(t, ok)
    \/ \E t \in Ids, ok \in BOOLEAN : create_order_return(t, ok)
    \/ \E o \in Ids, ok \in BOOLEAN : cancel_order_select(o, ok)
    \/ \E t \in Ids, ok \in BOOLEAN : cancel_order_answer(t, ok)
    \/ \E t \in Ids : cancel_order_now(t)
    \/ \E t \in Ids, ok \in BOOLEAN : cancel_order_write(t, ok)
    \/ \E t \in Ids, ok \in BOOLEAN : cancel_order_return(t, ok)
    \/ \E o \in Ids, s \in OrderStatus, ok \in BOOLEAN :
          update_order_status_select(o, s, ok)
    \/ \E t \in Ids, ok \in BOOLEAN : update_order_status_answer(t, ok)
    \/ \E t \in Ids : update_order_status_now(t)
    \/ \E t \in Ids, ok \in BOOLEAN : update_order_status_write(t, ok)
    \/ \E t \in Ids, ok \in BOOLEAN : update_order_status_return(t, ok)
    \/ \E status \in Optional({ACTIVE}), user_id \in Optional(UserIds),
          item_id \in Optional(ItemIds), from_, to_ \in Optional({0}) :
          \E ok \in BOOLEAN :
             list_orders(status, user_id, item_id, from_, to_, ok)
    \/ \E t \in Ids, ok \in BOOLEAN : list_orders_answer(t, ok)
    \/ \E o \in Ids, ok \in BOOLEAN : get_order_by_id(o, ok)
    \/ \E t \in Ids, ok \in BOOLEAN : get_order_by_id_answer(t, ok)
    \/ \E o \in Ids, ok \in BOOLEAN : get_order_logs(o, ok)
    \/ \E t \in Ids, ok \in BOOLEAN : get_order_logs_answer(t, ok)
    \/ \E o \in Ids, ok \in BOOLEAN : confirm_order(o, ok)
    \/ \E t \in Ids, ok \in BOOLEAN : confirm_order_answer(t, ok)
    \/ \E t \in Ids, ok \in BOOLEAN : confirm_order_insert(t, ok)
    \/ \E t \in Ids, ok \in BOOLEAN : confirm_order_memory(t, ok)
    \/ \E t \in Ids : confirm_order_add_task(t)
    \/ \E t \in Ids : confirm_order_return(t)
    \/ \E j \in Ids : process_confirm_order_start(j)
    \/ \E j \in Ids, ok \in BOOLEAN : process_confirm_order_load(j, ok)
    \/ \E j \in Ids : process_confirm_order_now(j)
    \/ \E j \in Ids, ok \in BOOLEAN : process_confirm_order_reject(j, ok)
    \/ \E j \in Ids, ok \in BOOLEAN : process_confirm_order_reject_memory(j, ok)
    \/ \E j \in Ids, ok \in BOOLEAN : process_confirm_order_apply(j, ok)
    \/ \E j \in Ids, ok \in BOOLEAN : process_confirm_order_succeed(j, ok)
    \/ \E j \in Ids, ok \in BOOLEAN : process_confirm_order_succeed_memory(j, ok)
    \/ \E j \in Ids, ok \in BOOLEAN : process_confirm_order_except(j, ok)
    \/ \E j \in Ids : process_confirm_order_except_memory(j)
    \/ \E j \in Ids, ok \in BOOLEAN : get_job(j, ok)
    \/ \E t \in Ids, ok \in BOOLEAN : get_job_answer(t, ok)

Spec == Init /\ [][Next]_vars
====
